---- MODULE Spec2Model ----
(***************************************************************************)
(* Model of the monitor worker (src/main.py): a Pub/Sub streaming-pull     *)
(* subscriber with flow control max_messages=1 whose callback decodes a    *)
(* request, fetches a crypto price or the weather, evaluates the alert     *)
(* condition, posts to a Discord webhook and acknowledges the message.     *)
(***************************************************************************)
EXTENDS Integers, Sequences, FiniteSets, TLC

\* ------------------------------------------------------------------ bounds
NumMsgs == 3          \* messages the subscription delivers in a run
MaxPrice == 3         \* fetched prices range over 0..MaxPrice
MaxThreshold == 2     \* numeric thresholds range over 0..MaxThreshold

Msgs == 1..NumMsgs

\* --------------------------------------------------------- Python values
\* A Python/JSON value is a record [t, v]: its type tag and, for numbers and
\* booleans, its numeric value (bool is a subclass of int in Python).
None == [t |-> "none", v |-> 0]
Num(n) == [t |-> "num", v |-> n]
Str == [t |-> "str", v |-> 0]       \* some non-empty string
EmptyStr == [t |-> "estr", v |-> 0] \* the empty string
Bool(b) == [t |-> "bool", v |-> IF b THEN 1 ELSE 0]
Dict == [t |-> "dict", v |-> 0]     \* some non-empty dict

\* Python truth value testing, as used by `if x:` and `a and b`.
Truthy(x) ==
    CASE x.t = "none" -> FALSE
      [] x.t = "estr" -> FALSE
      [] x.t \in {"num", "bool"} -> x.v # 0
      [] OTHER -> TRUE

\* `a > b` / `a < b` raise TypeError unless both operands are numbers.
Comparable(a, b) == a.t \in {"num", "bool"} /\ b.t \in {"num", "bool"}

\* ------------------------------------------------------- message payloads
\* message.data, by what json.loads(message.data.decode('utf-8')) makes of it:
\* "invalid" bytes do not decode or parse, "nonobject" parses to a JSON value
\* that is not an object (a list, a number), "object" parses to a dict.
Payload(kind, type, threshold, alert_enabled) ==
    [kind |-> kind, type |-> type, threshold |-> threshold,
     alert_enabled |-> alert_enabled]

Thresholds == {None, Str} \cup {Num(n) : n \in 0..MaxThreshold}
AlertFlags == {None, Bool(FALSE), Bool(TRUE)}

Payloads ==
    {Payload("invalid", "", None, None), Payload("nonobject", "", None, None)}
    \cup {Payload("object", ty, None, None) : ty \in {"", "weather", "other"}}
    \cup {Payload("object", "crypto", th, ae) : th \in Thresholds, ae \in AlertFlags}

NoPayload == Payload("none", "", None, None)

\* What the fetchers can return: None (Unavailable) or a value.
PriceResults == {None} \cup {Num(n) : n \in 0..MaxPrice}
WeatherResults == {None, Dict}
SinkOutcomes == {"ok", "fail"}

\* Environment variables: os.environ.get gives None when unset.
EnvValues == {None, EmptyStr, Str}

\* ---------------------------------------------------------- message text
\* response_text is modelled as the sequence of the lines it is built from.
Line(k, x) == [k |-> k, v |-> x.v]
Kinds(text) == {text[i].k : i \in 1..Len(text)}

VARIABLES
    mainpc,        \* main(): "start", "exited" (config missing), "listening",
                   \* "stopped" (after KeyboardInterrupt)
    environ,       \* os.environ: DISCORD_URL, GCP_PROJECT_ID,
                   \* PUBSUB_SUBSCRIPTION_ID, REDIS_HOST
    redis_client,  \* the global redis_client: "unset", "connected", "unreachable"
    in_flight_at_cancel, \* messages being processed when cancel() was called
    delivered,     \* history: the messages in the order they were delivered
    sink_log,      \* history: the messages in the order of their sink calls
    prev,          \* history: the last handling that returned with a decision
    pc,            \* per message: position of its callback invocation
    data,          \* per message: message.data
    locals,        \* per message: the callback's local variables
    leased,        \* messages delivered and neither acked nor nacked (in flight)
    acks,          \* per message: number of message.ack() calls
    nacks,         \* per message: number of message.nack() calls
    raised,        \* per message: an exception reached the callback's except block
    sink_calls,    \* per message: send_to_discord calls of its callback invocation
    sink_result    \* per message: outcome of the invocation's webhook POST

vars == <<mainpc, environ, redis_client, in_flight_at_cancel, delivered,
          sink_log, prev, pc, data, locals, leased, acks, nacks, raised,
          sink_calls, sink_result>>

\* Mutation: should_alert starts as True.
NoLocalsAlerting ==
    [msg_type |-> "", webhook_url |-> None, threshold |-> None,
     alert_enabled |-> None, result |-> None, fetched |-> FALSE,
     response_text |-> <<>>, should_alert |-> TRUE]

\* The callback's locals before it assigns them; lines 64-65 start
\* response_text as "" and should_alert as False.
NoLocals ==
    [msg_type |-> "", webhook_url |-> None, threshold |-> None,
     alert_enabled |-> None, result |-> None, fetched |-> FALSE,
     response_text |-> <<>>, should_alert |-> FALSE]

\* No handling has been remembered yet.
NoPrev ==
    [valid |-> FALSE, data |-> NoPayload, result |-> None,
     response_text |-> <<>>, should_alert |-> FALSE]

Init ==
    /\ mainpc = "start"
    /\ environ \in [DISCORD_URL : EnvValues,
                    GCP_PROJECT_ID : {None, Str},
                    PUBSUB_SUBSCRIPTION_ID : {None, Str},
                    REDIS_HOST : {None, Str}]
    /\ redis_client = "unset"
    /\ in_flight_at_cancel = {}
    /\ delivered = <<>>
    /\ sink_log = <<>>
    /\ prev = NoPrev
    /\ pc = [m \in Msgs |-> "queued"]
    /\ data = [m \in Msgs |-> NoPayload]
    /\ locals = [m \in Msgs |-> NoLocals]
    /\ leased = {}
    /\ acks = [m \in Msgs |-> 0]
    /\ nacks = [m \in Msgs |-> 0]
    /\ raised = [m \in Msgs |-> FALSE]
    /\ sink_calls = [m \in Msgs |-> 0]
    /\ sink_result = [m \in Msgs |-> "none"]

\* ------------------------------------------------------------ main()
\* Lines 129-142: with REDIS_HOST set the client is created and pinged; a
\* failing ping is caught and only printed. REDIS_PORT is taken to be numeric.
RedisOutcomes(redis_host) ==
    IF Truthy(redis_host) THEN {"connected", "unreachable"} ELSE {"unset"}

\* Mutation: the check of the required parameters is missing.
ConfigMissingNever(env) == FALSE

\* `if not project_id or not subscription_id:`, line 148.
ConfigMissing(env) ==
    ~Truthy(env.GCP_PROJECT_ID) \/ ~Truthy(env.PUBSUB_SUBSCRIPTION_ID)

\* main(), lines 117-164: the optional Redis connection, then without
\* GCP_PROJECT_ID or PUBSUB_SUBSCRIPTION_ID it prints an error and returns;
\* otherwise it subscribes with the callback.
Main ==
    /\ mainpc = "start"
    /\ redis_client' \in RedisOutcomes(environ.REDIS_HOST)
    /\ mainpc' = IF ConfigMissing(environ) THEN "exited" ELSE "listening"
    /\ UNCHANGED <<environ, pc, data, locals, leased, acks, nacks, raised,
                   sink_calls, sink_result>>
    /\ UNCHANGED in_flight_at_cancel

\* FlowControl(max_messages=1), line 158.
max_messages == 1

\* Mutation: the flow control limit is not enforced.
FlowControlAllowsAlways(held) == TRUE

\* Mutation: the flow control limit is one more than the configured one.
FlowControlAllowsOneMore(held) == Cardinality(held) < max_messages + 1

\* The subscriber hands a message to the callback only while the number of
\* messages it holds (delivered, neither acked nor nacked) is below the limit.
FlowControlAllows(held) == Cardinality(held) < max_messages

\* Mutation: the streaming pull goes on after cancel().
PullingAfterCancel(state) == state \in {"listening", "stopped"}

\* The streaming pull runs from subscribe (line 160) until
\* streaming_pull_future.cancel() (line 171).
Pulling(state) == state = "listening"

\* subscriber.subscribe(..., callback=callback, flow_control=flow_control):
\* the streaming pull delivers some pending message to callback(message).
Deliver(m) ==
    /\ Pulling(mainpc)
    /\ pc[m] = "queued"
    /\ FlowControlAllows(leased)
    /\ \E p \in Payloads : data' = [data EXCEPT ![m] = p]
    /\ pc' = [pc EXCEPT ![m] = "start"]
    /\ leased' = leased \cup {m}
    /\ UNCHANGED <<mainpc, environ, locals, acks, nacks, raised, sink_calls,
                   sink_result>>
    /\ UNCHANGED <<redis_client, in_flight_at_cancel>>

\* Lines 168-172: KeyboardInterrupt interrupts streaming_pull_future.result();
\* main cancels the streaming pull, prints and returns. Nothing stops a
\* callback that is running.
Cancel ==
    /\ mainpc = "listening"
    /\ mainpc' = "stopped"
    /\ in_flight_at_cancel' =
          {m \in Msgs : pc[m] \in {"start", "crypto", "weather", "notify", "ack"}}
    /\ UNCHANGED <<environ, redis_client, pc, data, locals, leased, acks, nacks,
                   raised, sink_calls, sink_result>>

\* ------------------------------------------------------------ callback
\* message.ack(), line 111: the acknowledgment is handed to the subscriber.
AckMessage(a, m) == [a EXCEPT ![m] = @ + 1]

\* Mutation: the except block acknowledges the message.
ExceptAcksAndAcks(a, m) == [a EXCEPT ![m] = @ + 1]

\* except Exception, lines 113-115: the error is printed; message.nack() is
\* commented out and there is no message.ack() on this path.
ExceptAcks(a, m) == a

\* Mutation: no try/except around the body, the exception leaves callback.
ExceptEscaping(m) ==
    /\ pc' = [pc EXCEPT ![m] = "escaped"]
    /\ raised' = [raised EXCEPT ![m] = TRUE]
    /\ UNCHANGED <<acks, nacks, leased>>

\* An exception raised inside the try block of callback for message m.
Except(m) ==
    /\ pc' = [pc EXCEPT ![m] = "done"]
    /\ raised' = [raised EXCEPT ![m] = TRUE]
    /\ acks' = ExceptAcks(acks, m)
    /\ UNCHANGED <<nacks, leased>>

\* json.loads(message.data.decode('utf-8')) followed by data.get(...):
\* decoding or parsing raises on invalid bytes, and .get raises
\* AttributeError on a parsed value that is not a dict.
json_loads(p) == [raised |-> p.kind = "invalid", isdict |-> p.kind = "object"]

\* Lines 60-70 and the dispatch on msg_type (lines 67, 92).
Decode(m) ==
    /\ pc[m] = "start"
    /\ LET j == json_loads(data[m]) IN
       IF j.raised \/ ~j.isdict
       THEN /\ Except(m)
            /\ UNCHANGED locals
       ELSE /\ locals' = [locals EXCEPT ![m] =
                 [NoLocals EXCEPT !.msg_type = data[m].type,
                                  !.webhook_url = environ.DISCORD_URL,
                                  !.threshold = data[m].threshold,
                                  !.alert_enabled = data[m].alert_enabled]]
            /\ pc' = [pc EXCEPT ![m] =
                 CASE data[m].type = "crypto" -> "crypto"
                   [] data[m].type = "weather" -> "weather"
                   [] OTHER -> "notify"]
            /\ UNCHANGED <<leased, acks, nacks, raised>>
    /\ UNCHANGED <<mainpc, environ, data, sink_calls, sink_result>>
    /\ UNCHANGED <<redis_client, in_flight_at_cancel>>

\* Mutation: the alert logic looks at the threshold only.
AlertConfiguredIgnoringFlag(alert_enabled, threshold) == Truthy(threshold)

\* `if alert_enabled and threshold:`, line 78.
AlertConfigured(alert_enabled, threshold) ==
    Truthy(alert_enabled) /\ Truthy(threshold)

\* An evaluation result: whether it raised, response_text, should_alert.
Eval(r, text, alert) == [raised |-> r, text |-> text, alert |-> alert]

\* Line 75.
BasePrice(price) == <<Line("PRICE", price)>>
\* Lines 80-81.
AboveBranch(text, threshold) ==
    Eval(FALSE, Append(text, Line("ACIMA", threshold)), TRUE)
\* Mutation: the below-target branch sets should_alert.
BelowBranchNotifying(text, threshold) ==
    [raised |-> FALSE, text |-> Append(text, Line("ABAIXO", threshold)),
     alert |-> TRUE]
\* Line 83: the line is appended and should_alert keeps its initial False.
BelowBranch(text, threshold) ==
    Eval(FALSE, Append(text, Line("ABAIXO", threshold)), FALSE)
\* Line 85.
EqualBranch(text) == Eval(FALSE, text, TRUE)
\* Line 87.
NoThresholdBranch(text) == Eval(FALSE, text, TRUE)
\* Mutation: the failure branch leaves should_alert False.
NoPriceBranchSilent(price) ==
    [raised |-> FALSE, text |-> <<Line("NO_PRICE", None)>>, alert |-> FALSE]
\* Lines 89-90.
NoPriceBranch(price) == Eval(FALSE, <<Line("NO_PRICE", None)>>, TRUE)
\* Lines 101-102.
NoWeatherBranch(weather_data) == Eval(FALSE, <<Line("NO_WEATHER", None)>>, TRUE)
\* Lines 97-99.
WeatherBranch(weather_data) == Eval(FALSE, <<Line("WEATHER", weather_data)>>, TRUE)

\* Lines 74-90 of callback, from the fetched price and the request's fields.
evaluate_crypto(price, threshold, alert_enabled) ==
    IF Truthy(price)
    THEN LET text == BasePrice(price) IN
         IF AlertConfigured(alert_enabled, threshold)
         THEN IF ~Comparable(price, threshold)
              THEN Eval(TRUE, text, FALSE)    \* TypeError at line 79
              ELSE IF price.v > threshold.v THEN AboveBranch(text, threshold)
              ELSE IF price.v < threshold.v THEN BelowBranch(text, threshold)
              ELSE EqualBranch(text)
         ELSE NoThresholdBranch(text)
    ELSE NoPriceBranch(price)

\* Lines 96-102.
evaluate_weather(weather_data) ==
    IF Truthy(weather_data) THEN WeatherBranch(weather_data)
    ELSE NoWeatherBranch(weather_data)

\* Mutation: a report equal to the one of the previous handling (same
\* request, same fetch result) is suppressed.
EvaluatedDeduplicating(m, result, e) ==
    [locals EXCEPT ![m].result = result, ![m].fetched = TRUE,
                   ![m].response_text = e.text,
                   ![m].should_alert =
                       e.alert /\ ~(prev.valid /\ prev.data = data[m]
                                               /\ prev.result = result)]

\* The locals of message m after a fetch returned `result` and the
\* evaluation gave e.
Evaluated(m, result, e) ==
    [locals EXCEPT ![m].result = result, ![m].fetched = TRUE,
                   ![m].response_text = e.text, ![m].should_alert = e.alert]

\* Lines 68-90: monitor.get_crypto_price(symbol) returns a price or None
\* (every failure is caught inside the fetcher), then the alert logic runs.
Crypto(m) ==
    /\ pc[m] = "crypto"
    /\ \E price \in PriceResults :
         LET e == evaluate_crypto(price, locals[m].threshold,
                                  locals[m].alert_enabled) IN
         /\ locals' = Evaluated(m, price, e)
         /\ IF e.raised
            THEN Except(m)
            ELSE /\ pc' = [pc EXCEPT ![m] = "notify"]
                 /\ UNCHANGED <<leased, acks, nacks, raised>>
    /\ UNCHANGED <<mainpc, environ, data, sink_calls, sink_result>>
    /\ UNCHANGED <<redis_client, in_flight_at_cancel>>

\* Lines 93-102: monitor.get_weather(location) returns a dict or None.
Weather(m) ==
    /\ pc[m] = "weather"
    /\ \E weather_data \in WeatherResults :
         LET e == evaluate_weather(weather_data) IN
         /\ locals' = Evaluated(m, weather_data, e)
         /\ pc' = [pc EXCEPT ![m] = "notify"]
    /\ UNCHANGED <<mainpc, environ, data, leased, acks, nacks, raised,
                   sink_calls, sink_result>>
    /\ UNCHANGED <<redis_client, in_flight_at_cancel>>

\* Mutation: send_to_discord without its try/except, a failed POST raises.
send_to_discord_raising(outcome) == [raised |-> outcome = "fail"]

\* send_to_discord, lines 46-53: the POST and raise_for_status are inside a
\* try whose except prints the error, so no outcome raises to the caller.
send_to_discord(outcome) == [raised |-> FALSE]

\* Mutation: the sink is called whenever a webhook address is configured.
ShouldSendAlways(webhook_url, should_alert) == Truthy(webhook_url)

\* `if webhook_url and should_alert:`, line 105.
ShouldSend(webhook_url, should_alert) == Truthy(webhook_url) /\ should_alert

\* Lines 105-108.
Notify(m) ==
    /\ pc[m] = "notify"
    /\ IF ShouldSend(locals[m].webhook_url, locals[m].should_alert)
       THEN \E outcome \in SinkOutcomes :
              /\ sink_calls' = [sink_calls EXCEPT ![m] = @ + 1]
              /\ sink_result' = [sink_result EXCEPT ![m] = outcome]
              /\ IF send_to_discord(outcome).raised
                 THEN Except(m)
                 ELSE /\ pc' = [pc EXCEPT ![m] = "ack"]
                      /\ UNCHANGED <<leased, acks, nacks, raised>>
       ELSE /\ pc' = [pc EXCEPT ![m] = "ack"]
            /\ UNCHANGED <<leased, acks, nacks, raised, sink_calls, sink_result>>
    /\ UNCHANGED <<mainpc, environ, data, locals>>
    /\ UNCHANGED <<redis_client, in_flight_at_cancel>>

\* Mutation: message.ack() is placed before the notification.
AckBeforeNotify(m) ==
    /\ pc[m] = "notify"
    /\ acks[m] = 0
    /\ acks' = AckMessage(acks, m)
    /\ UNCHANGED <<mainpc, environ, pc, data, locals, leased, nacks, raised,
                   sink_calls, sink_result>>
    /\ UNCHANGED <<redis_client, in_flight_at_cancel>>

\* Line 111, the last statement of the try block.
Ack(m) ==
    /\ pc[m] = "ack"
    /\ acks' = AckMessage(acks, m)
    /\ pc' = [pc EXCEPT ![m] = "done"]
    /\ UNCHANGED <<mainpc, environ, data, locals, leased, nacks, raised,
                   sink_calls, sink_result>>
    /\ UNCHANGED <<redis_client, in_flight_at_cancel>>

\* The subscriber stops holding a message once it was acked or nacked; a
\* message that was neither stays held and keeps counting against the flow
\* control limit.
Release(held, m) == IF acks[m] + nacks[m] > 0 THEN held \ {m} ELSE held

\* callback returns: its local variables go out of scope, and the subscriber
\* processes the acknowledgment the callback handed to it, if any.
Return(m) ==
    /\ pc[m] = "done"
    /\ pc' = [pc EXCEPT ![m] = "returned"]
    /\ locals' = [locals EXCEPT ![m] = NoLocals]
    /\ leased' = Release(leased, m)
    /\ data' = IF m \in leased' THEN data ELSE [data EXCEPT ![m] = NoPayload]
    /\ sink_calls' = [sink_calls EXCEPT ![m] = 0]
    /\ sink_result' = [sink_result EXCEPT ![m] = "none"]
    /\ UNCHANGED <<mainpc, environ, acks, nacks, raised>>
    /\ UNCHANGED <<redis_client, in_flight_at_cancel>>

\* One step of the callback invocation for message m.
HandlerStep(m) ==
    Decode(m) \/ Crypto(m) \/ Weather(m) \/ Notify(m) \/ Ack(m) \/ Return(m)

\* The history variables, which no action of the worker reads or writes.
history == <<delivered, sink_log, prev>>

\* The worker.
Next ==
    \/ Main /\ UNCHANGED history
    \/ Cancel /\ UNCHANGED history
    \/ \E m \in Msgs : Deliver(m) /\ UNCHANGED history
    \/ \E m \in Msgs : Decode(m) /\ UNCHANGED history
    \/ \E m \in Msgs : Crypto(m) /\ UNCHANGED history
    \/ \E m \in Msgs : Weather(m) /\ UNCHANGED history
    \/ \E m \in Msgs : Notify(m) /\ UNCHANGED history
    \/ \E m \in Msgs : Ack(m) /\ UNCHANGED history
    \/ \E m \in Msgs : Return(m) /\ UNCHANGED history

Spec == Init /\ [][Next]_vars

\* The worker with the order of deliveries and of sink calls recorded.
NextOrder ==
    \/ Main /\ UNCHANGED history
    \/ Cancel /\ UNCHANGED history
    \/ \E m \in Msgs :
         Deliver(m) /\ delivered' = Append(delivered, m)
                    /\ UNCHANGED <<sink_log, prev>>
    \/ \E m \in Msgs : Decode(m) /\ UNCHANGED history
    \/ \E m \in Msgs : Crypto(m) /\ UNCHANGED history
    \/ \E m \in Msgs : Weather(m) /\ UNCHANGED history
    \/ \E m \in Msgs :
         Notify(m) /\ sink_log' = (IF sink_calls'[m] > sink_calls[m]
                                   THEN Append(sink_log, m) ELSE sink_log)
                   /\ UNCHANGED <<delivered, prev>>
    \/ \E m \in Msgs : Ack(m) /\ UNCHANGED history
    \/ \E m \in Msgs : Return(m) /\ UNCHANGED history

\* The Redis connection plays no part in the callback and no sink call is
\* made without a webhook address: the runs recorded are those without
\* REDIS_HOST and with DISCORD_URL.
InitOrder ==
    /\ Init
    /\ environ.REDIS_HOST = None
    /\ environ.DISCORD_URL = Str

SpecOrder == InitOrder /\ [][NextOrder]_vars

\* What is remembered of the handling of m when its callback returns: its
\* payload, its fetch result and its decision, if it fetched at all.
Remembered(m) ==
    IF locals[m].fetched
    THEN [valid |-> TRUE, data |-> data[m], result |-> locals[m].result,
          response_text |-> locals[m].response_text,
          should_alert |-> locals[m].should_alert]
    ELSE prev

\* The worker with the last handling remembered, so that a later delivery of
\* the same payload (a redelivery) can be compared with it; no
\* KeyboardInterrupt arrives in these runs.
NextRedelivery ==
    \/ Main /\ UNCHANGED history
    \/ \E m \in Msgs : Deliver(m) /\ UNCHANGED history
    \/ \E m \in Msgs : Decode(m) /\ UNCHANGED history
    \/ \E m \in Msgs : Crypto(m) /\ UNCHANGED history
    \/ \E m \in Msgs : Weather(m) /\ UNCHANGED history
    \/ \E m \in Msgs : Notify(m) /\ UNCHANGED history
    \/ \E m \in Msgs : Ack(m) /\ UNCHANGED history
    \/ \E m \in Msgs :
         Return(m) /\ prev' = Remembered(m) /\ UNCHANGED <<delivered, sink_log>>

\* The runs compared are those that subscribe, with a webhook address and
\* without REDIS_HOST.
InitRedelivery ==
    /\ Init
    /\ environ.REDIS_HOST = None
    /\ environ.DISCORD_URL = Str
    /\ ~ConfigMissing(environ)

SpecRedelivery == InitRedelivery /\ [][NextRedelivery]_vars

TypeOK ==
    /\ mainpc \in {"start", "exited", "listening", "stopped"}
    /\ redis_client \in {"unset", "connected", "unreachable"}
    /\ in_flight_at_cancel \subseteq Msgs
    /\ delivered \in Seq(Msgs)
    /\ sink_log \in Seq(Msgs)
    /\ pc \in [Msgs -> {"queued", "start", "crypto", "weather", "notify",
                        "ack", "done", "returned"}]
    /\ data \in [Msgs -> Payloads \cup {NoPayload}]
    /\ leased \subseteq Msgs
    /\ acks \in [Msgs -> 0..2]
    /\ nacks \in [Msgs -> 0..2]
    /\ raised \in [Msgs -> BOOLEAN]
    /\ sink_calls \in [Msgs -> 0..2]
    /\ sink_result \in [Msgs -> SinkOutcomes \cup {"none"}]

\* ------------------------------------------------------------ properties
\* The callback invocation for m has executed its last statement.
Finished(m) == pc[m] = "done"

\* The callback invocation for m is between its start and its last statement.
Processing == {"start", "crypto", "weather", "notify", "ack"}

\* m carries a crypto request whose fetcher has returned.
CryptoFetched(m) ==
    /\ data[m].kind = "object"
    /\ data[m].type = "crypto"
    /\ locals[m].fetched

\* m is a crypto request with alert_enabled true, a numeric threshold and a
\* fetched numeric price.
AlertRequest(m) ==
    /\ CryptoFetched(m)
    /\ data[m].alert_enabled = Bool(TRUE)
    /\ data[m].threshold.t = "num"
    /\ locals[m].result.t = "num"

\* C1: a message whose processing raised inside the handler is acknowledged
\* anyway.
C1_RaisedIsAcked ==
    \A m \in Msgs : (Finished(m) /\ raised[m]) => acks[m] = 1

\* C2: for a malformed payload (undecodable bytes, or JSON that is not an
\* object) the handler completes, the message is acknowledged and the sink
\* is not called.
C2_MalformedIsAcked ==
    \A m \in Msgs :
        (Finished(m) /\ data[m].kind \in {"invalid", "nonobject"})
            => (acks[m] = 1 /\ sink_calls[m] = 0)

\* C3 (as stated): with alert_enabled true and a set threshold, a price below
\* the threshold appends the below-target line and still notifies, and the
\* sink is called when a webhook address is configured. Stated for the prices
\* the handler reads as a price (non-zero ones).
C3_BelowStillNotifies ==
    \A m \in Msgs :
        (Finished(m) /\ AlertRequest(m)
           /\ Truthy(locals[m].result)
           /\ locals[m].result.v < data[m].threshold.v)
            => /\ "ABAIXO" \in Kinds(locals[m].response_text)
               /\ locals[m].should_alert
               /\ Truthy(locals[m].webhook_url) => sink_calls[m] = 1

\* C3 (amended): with alert_enabled true and a set threshold, when the price
\* is below the threshold and the handler appends the below-target line, the
\* notify decision is false, the sink is not called even if a webhook address
\* is configured, and the message is acknowledged.
C3_BelowDoesNotNotify ==
    \A m \in Msgs :
        (Finished(m) /\ AlertRequest(m)
           /\ locals[m].result.v < data[m].threshold.v
           /\ "ABAIXO" \in Kinds(locals[m].response_text))
            => /\ locals[m].response_text =
                     <<Line("PRICE", locals[m].result),
                       Line("ABAIXO", data[m].threshold)>>
               /\ ~locals[m].should_alert
               /\ sink_calls[m] = 0
               /\ ~raised[m]
               /\ acks[m] = 1

C3_Witness ==
    \E m \in Msgs :
        /\ Finished(m) /\ AlertRequest(m)
        /\ locals[m].result.v < data[m].threshold.v
        /\ "ABAIXO" \in Kinds(locals[m].response_text)
        /\ Truthy(locals[m].webhook_url)
        /\ acks[m] = 1

\* C4: with alert_enabled true, a set threshold (any number, 0 included) and
\* a fetched price: above the threshold the message carries the ACIMA marker,
\* below it the below-target marker, and at equality neither marker with
\* notify true.
C4_Markers ==
    \A m \in Msgs :
        (Finished(m) /\ AlertRequest(m)) =>
            LET price == locals[m].result.v
                threshold == data[m].threshold.v
                kinds == Kinds(locals[m].response_text)
            IN /\ price > threshold => "ACIMA" \in kinds
               /\ price < threshold => "ABAIXO" \in kinds
               /\ price = threshold =>
                    /\ "ACIMA" \notin kinds
                    /\ "ABAIXO" \notin kinds
                    /\ locals[m].should_alert

\* C5: a delivered message is acknowledged if and only if its processing
\* completed without throwing: a processing that runs to the end acks exactly
\* once, one that throws issues neither ack nor nack, and nothing is
\* acknowledged before its processing has ended.
C5_AckIffCompleted ==
    \A m \in Msgs :
        /\ nacks[m] = 0
        /\ pc[m] \in {"done", "returned"} =>
              acks[m] = (IF raised[m] THEN 0 ELSE 1)
        /\ pc[m] \notin {"done", "returned"} => (acks[m] = 0 /\ ~raised[m])

C5_Witness ==
    \E a, b \in Msgs :
        /\ pc[a] = "returned" /\ ~raised[a] /\ acks[a] = 1
        /\ pc[b] = "done" /\ raised[b] /\ acks[b] = 0 /\ nacks[b] = 0

\* C6: a message whose processing failed does not keep occupying the single
\* in-flight slot, so the next queued message can be handed to the handler.
C6_FailedFreesSlot ==
    \A m \in Msgs :
        (pc[m] = "returned" /\ raised[m]) =>
            /\ m \notin leased
            /\ \A k \in Msgs : pc[k] = "queued" => FlowControlAllows(leased)

\* C7: at most one message is being processed at any time.
C7_OneAtATime ==
    Cardinality({m \in Msgs : pc[m] \in Processing}) <= 1

C7_Witness ==
    \E a, b, c \in Msgs :
        /\ pc[a] = "returned"
        /\ pc[b] \in {"crypto", "weather", "notify"}
        /\ pc[c] = "queued"

\* C8: the outcome of the webhook POST never changes the acknowledgment: a
\* handling that attempted the sink ends acknowledged whether the POST
\* succeeded or failed, and the sink is attempted at most once per handling.
C8_SinkOutcomeIrrelevant ==
    \A m \in Msgs :
        /\ sink_calls[m] <= 1
        /\ (Finished(m) /\ sink_result[m] \in SinkOutcomes) =>
              (sink_calls[m] = 1 /\ acks[m] = 1 /\ nacks[m] = 0 /\ ~raised[m])

C8_Witness ==
    \E m \in Msgs :
        /\ Finished(m)
        /\ sink_calls[m] = 1
        /\ sink_result[m] = "fail"
        /\ acks[m] = 1

\* C9: when the fetcher returns Unavailable (crypto or weather), the notify
\* decision is true, the message is the failure message, and the message is
\* acknowledged.
C9_UnavailableNotifies ==
    \A m \in Msgs :
        (Finished(m) /\ locals[m].fetched /\ locals[m].result = None) =>
            /\ locals[m].should_alert
            /\ locals[m].response_text =
                 (IF locals[m].msg_type = "crypto"
                  THEN <<Line("NO_PRICE", None)>>
                  ELSE <<Line("NO_WEATHER", None)>>)
            /\ acks[m] = 1

C9_Witness ==
    \E m \in Msgs :
        /\ Finished(m) /\ CryptoFetched(m)
        /\ locals[m].result = None
        /\ data[m].alert_enabled = Bool(TRUE)
        /\ data[m].threshold.t = "num"
        /\ locals[m].should_alert
        /\ acks[m] = 1

\* C10: for a crypto request whose threshold is missing or whose
\* alert_enabled is falsy, the notify decision is true whatever the fetcher
\* returned.
C10_NoAlertConfigNotifies ==
    \A m \in Msgs :
        (Finished(m) /\ CryptoFetched(m)
           /\ (data[m].threshold = None \/ ~Truthy(data[m].alert_enabled)))
            => (locals[m].should_alert /\ ~raised[m])

C10_Witness ==
    \E m \in Msgs :
        /\ Finished(m) /\ CryptoFetched(m)
        /\ data[m].alert_enabled = Bool(FALSE)
        /\ data[m].threshold.t = "num"
        /\ locals[m].result.t = "num"
        /\ 0 < locals[m].result.v
        /\ locals[m].result.v < data[m].threshold.v
        /\ locals[m].should_alert

\* The position of message m in the sequence seq, which holds it.
Pos(seq, m) == CHOOSE i \in 1..Len(seq) : seq[i] = m

\* C11: notifications are ordered by delivery order: of two messages that
\* both produced a sink call, the one delivered first had its sink call first.
C11_SinkOrderIsDeliveryOrder ==
    \A i, j \in 1..Len(sink_log) :
        i < j => Pos(delivered, sink_log[i]) < Pos(delivered, sink_log[j])

C11_Witness ==
    /\ Len(sink_log) >= 2
    /\ sink_log[1] > sink_log[2]
    /\ Pos(delivered, sink_log[1]) < Pos(delivered, sink_log[2])

C13_UnknownTypeAckedSilently ==
    \A m \in Msgs :
        (Finished(m) /\ data[m].kind = "object"
           /\ data[m].type \notin {"crypto", "weather"})
            => (acks[m] = 1 /\ sink_calls[m] = 0 /\ ~raised[m])

C13_Witness ==
    \E m \in Msgs :
        /\ Finished(m) /\ data[m].kind = "object" /\ data[m].type = "other"
        /\ Truthy(locals[m].webhook_url)
        /\ acks[m] = 1 /\ sink_calls[m] = 0

\* C14: the sink is called exactly when a webhook address is configured and
\* the decision says notify; without an address the delivery is skipped, no
\* error is raised and the message is acknowledged.
C14_SinkIffConfiguredAndNotify ==
    \A m \in Msgs :
        /\ pc[m] \in {"queued", "start", "crypto", "weather", "notify"}
              => sink_calls[m] = 0
        /\ pc[m] \in {"ack", "done"} =>
              sink_calls[m] =
                 (IF ~raised[m] /\ Truthy(locals[m].webhook_url)
                        /\ locals[m].should_alert
                  THEN 1 ELSE 0)
        /\ (pc[m] = "done" /\ locals[m].should_alert
              /\ ~Truthy(locals[m].webhook_url))
              => (~raised[m] /\ acks[m] = 1)

C14_Witness ==
    \E m \in Msgs :
        /\ Finished(m)
        /\ locals[m].should_alert
        /\ ~Truthy(locals[m].webhook_url)
        /\ sink_calls[m] = 0
        /\ acks[m] = 1

\* C15: with GCP_PROJECT_ID or PUBSUB_SUBSCRIPTION_ID missing the process
\* exits without subscribing and no message is ever handled; a failed Redis
\* connection is not fatal and the consume loop is still entered.
C15_ConfigMissingExits ==
    LET missing == \/ ~Truthy(environ.GCP_PROJECT_ID)
                   \/ ~Truthy(environ.PUBSUB_SUBSCRIPTION_ID)
    IN /\ missing =>
            /\ mainpc \in {"start", "exited"}
            /\ leased = {}
            /\ \A m \in Msgs : pc[m] = "queued"
       /\ (~missing /\ mainpc # "start") => mainpc \in {"listening", "stopped"}

C15_Witness ==
    /\ mainpc = "exited"
    /\ redis_client = "unreachable"
    /\ Truthy(environ.GCP_PROJECT_ID)
    /\ ~Truthy(environ.PUBSUB_SUBSCRIPTION_ID)

\* C16: after the shutdown signal no further message is pulled, and a
\* message in flight at the signal can still take every remaining step of
\* its processing (notification attempt and acknowledgment).
C16_CancelStopsPulling ==
    /\ [][mainpc = "stopped" =>
            \A m \in Msgs : pc[m] = "queued" => pc'[m] = "queued"]_vars
    /\ [](\A m \in Msgs :
            (mainpc = "stopped" /\ pc[m] \in Processing \cup {"done"})
                => ENABLED HandlerStep(m))

C16_Witness ==
    /\ mainpc = "stopped"
    /\ \E m \in in_flight_at_cancel :
         /\ pc[m] = "done" /\ sink_calls[m] = 1 /\ acks[m] = 1
    /\ \E k \in Msgs : pc[k] = "queued"

\* C17: for a crypto request, whenever the fetcher returns a price (any
\* number, 0 included) the handler builds the base price message; the failure
\* message is produced only when the fetcher returned Unavailable.
C17_PriceGivesBaseMessage ==
    \A m \in Msgs :
        (Finished(m) /\ CryptoFetched(m)) =>
            /\ locals[m].result.t = "num" =>
                  /\ Len(locals[m].response_text) >= 1
                  /\ locals[m].response_text[1] = Line("PRICE", locals[m].result)
            /\ "NO_PRICE" \in Kinds(locals[m].response_text) =>
                  locals[m].result = None

\* C18: within one handling the acknowledgment is issued only after the sink
\* attempt, if any, has returned.
C18_AckAfterSink ==
    \A m \in Msgs :
        /\ pc[m] \in {"queued", "start", "crypto", "weather", "notify"}
              => acks[m] = 0
        /\ (acks[m] >= 1 /\ pc[m] = "done" /\ Truthy(locals[m].webhook_url)
              /\ locals[m].should_alert)
              => (sink_calls[m] = 1 /\ sink_result[m] \in SinkOutcomes)

C18_Witness ==
    \E m \in Msgs :
        /\ pc[m] = "ack"
        /\ sink_calls[m] = 1
        /\ sink_result[m] = "fail"
        /\ acks[m] = 0

\* C19: a handling that ends without acknowledging the message made no sink
\* call.
C19_UnackedMadeNoSinkCall ==
    \A m \in Msgs : (Finished(m) /\ acks[m] = 0) => sink_calls[m] = 0

C19_Witness ==
    \E m \in Msgs :
        /\ Finished(m) /\ raised[m] /\ acks[m] = 0
        /\ locals[m].fetched
        /\ Truthy(locals[m].webhook_url)
        /\ sink_calls[m] = 0

\* C20: nothing escapes the handler: every handling that has started can
\* take its next step until it returns, it ends either acknowledged or with
\* its exception caught, and it issues at most one sink call and one
\* acknowledgment.
C20_NothingEscapes ==
    \A m \in Msgs :
        /\ pc[m] # "escaped"
        /\ sink_calls[m] <= 1
        /\ acks[m] <= 1
        /\ pc[m] \in Processing \cup {"done"} => ENABLED HandlerStep(m)
        /\ pc[m] \in {"done", "returned"} => (raised[m] \/ acks[m] = 1)

C20_Witness ==
    \E a, b \in Msgs :
        /\ pc[a] = "returned" /\ acks[a] = 1
        /\ pc[b] = "returned" /\ raised[b] /\ acks[b] = 0

====
